---- MODULE Spec2Model ----
(***************************************************************************)
(* Model of the ungoogled-chromium Windows build scripts:                  *)
(*   build.py       main(): the staged pipeline, retry_on_fail,            *)
(*                  _get_vcvars_path, _run_build_process                   *)
(*   build_llvm.py  the timeout-bounded toolchain build, which drives      *)
(*                  _run_build_process_timeout                             *)
(* The file system persists across invocations of build.py; everything     *)
(* else is per invocation.                                                 *)
(***************************************************************************)
EXTENDS Integers, Sequences, FiniteSets, TLC

\* ------------------------------------------------------------------------
\* class Step(Enum)
SETUP_ENVIRONMENT == "setup-environment"
DOWNLOAD_PGO_PROFILES == "download-pgo-profiles"
CREATE_ARGS_GN == "create-args-gn"
BOOTSTRAP_GN == "bootstrap-gn"
BUILD == "build"
PACKAGE == "package"

Step ==
  {SETUP_ENVIRONMENT, DOWNLOAD_PGO_PROFILES, CREATE_ARGS_GN, BOOTSTRAP_GN, BUILD, PACKAGE}

\* the declaration order of the enumeration
StepOrder ==
  <<SETUP_ENVIRONMENT, DOWNLOAD_PGO_PROFILES, CREATE_ARGS_GN, BOOTSTRAP_GN, BUILD, PACKAGE>>

\* class Args: the flags main() looks at
Args ==
  [ci : BOOLEAN, step : Step, force : BOOLEAN, x86 : BOOLEAN, skip_domsub : BOOLEAN]

\* ------------------------------------------------------------------------
\* program constants
MaxAttempts == 5
Backoff == 5
ExitCancelled == 124
ExitToolFailure == 123
ExitFatal == 1

\* ------------------------------------------------------------------------
\* contents of the two flag files, as token sequences
FlagsGn == <<"is_official_build">>
FlagsWindowsGn == <<"target_cpu=", "x64", "v8_cpu=", "x64">>

RECURSIVE ReplaceToken(_, _, _)
\* str.replace on a token sequence
ReplaceToken(s, old, new) ==
  IF s = <<>> THEN <<>>
  ELSE <<IF Head(s) = old THEN new ELSE Head(s)>> \o ReplaceToken(Tail(s), old, new)

\* the text main() writes to out/Default/args.gn
ArgsGnContent(x86) ==
  FlagsGn \o <<"\n">> \o
    (IF x86 THEN ReplaceToken(FlagsWindowsGn, "x64", "x86") ELSE FlagsWindowsGn)

\* ------------------------------------------------------------------------
VARIABLES
  args,        \* the parsed command line of the current invocation
  pc,          \* position of main()
  fs,          \* the build tree on disk
  cwd,         \* current directory: "launch" (where started), "src" or "root" (_ROOT_DIR)
  attempt,     \* loop variable of retry_on_fail
  calls,       \* invocations of the callback by retry_on_fail
  sleeps,      \* backoff sleeps of retry_on_fail
  slept,       \* seconds slept by retry_on_fail
  retryResult, \* "none" while running, then "True" / "False" / "raised"
  site,        \* which _run_build_process call is in progress
  started,     \* step bodies started by this invocation, in order
  ops,         \* side-effecting operations started by this invocation
  failedStep,  \* the step whose body failed, or "none"
  raised,      \* the exception that ended the invocation, or "none"
  reported,    \* error() messages emitted
  exitCode,    \* -1 while running, otherwise the exit code of the process
  tree0,       \* the build tree as the current invocation found it
  toolchain,   \* outcome of the latest _get_vcvars_path call, "none" before the first
  fails,       \* callback failures caught by retry_on_fail
  lastCall,    \* outcome of the latest callback invocation in retry_on_fail
  grp,         \* progress groups: inside a with group block, notifications sent
  completed    \* steps whose whole body has run to its end on this tree at least once

mvars ==
  <<args, pc, fs, cwd, attempt, calls, sleeps, slept, retryResult, site, started, ops,
    failedStep, raised, reported, exitCode, tree0, toolchain, fails, lastCall, grp,
    completed>>

EmptyTree ==
  [srcTree |-> FALSE, buildGn |-> FALSE, pgoProfile |-> "absent", outDefault |-> FALSE,
   argsGn |-> <<>>, gnExe |-> FALSE]

\* no with group block entered, no notification sent
NoGroup == [open |-> FALSE, starts |-> 0, ends |-> 0]

\* build.py is not running
NoArgs ==
  [ci |-> FALSE, step |-> SETUP_ENVIRONMENT, force |-> FALSE, x86 |-> FALSE,
   skip_domsub |-> FALSE]

MainIdle ==
  /\ args = NoArgs
  /\ pc = "idle"
  /\ fs = EmptyTree
  /\ cwd = "launch"
  /\ attempt = 0
  /\ calls = 0
  /\ sleeps = 0
  /\ slept = 0
  /\ retryResult = "none"
  /\ site = "none"
  /\ started = <<>>
  /\ ops = {}
  /\ failedStep = "none"
  /\ raised = "none"
  /\ reported = {}
  /\ exitCode = -1
  /\ tree0 = EmptyTree
  /\ toolchain = "none"
  /\ fails = 0
  /\ lastCall = "none"
  /\ grp = NoGroup
  /\ completed = {}

\* the per-invocation state of a fresh interpreter given its arguments
Fresh(a) ==
  /\ args' = a
  /\ cwd' = "launch"
  /\ attempt' = 0
  /\ calls' = 0
  /\ sleeps' = 0
  /\ slept' = 0
  /\ retryResult' = "none"
  /\ site' = "none"
  /\ started' = <<>>
  /\ ops' = {}
  /\ failedStep' = "none"
  /\ raised' = "none"
  /\ reported' = {}
  /\ exitCode' = -1
  /\ tree0' = fs
  /\ toolchain' = "none"
  /\ fails' = 0
  /\ lastCall' = "none"
  /\ grp' = NoGroup

\* ------------------------------------------------------------------------
\* the current step body, if any
CurrentStep == IF started = <<>> THEN "none" ELSE started[Len(started)]

\* the ninja call of the CI branch sits inside try/except
InTry == args.ci /\ site = "ninja"

\* exit code of the interpreter for an exception raised in main()
ExitCodeFor(exc, inTry) ==
  IF inTry /\ exc = "KeyboardInterrupt" THEN ExitCancelled
  ELSE IF inTry /\ exc = "RuntimeError" THEN ExitToolFailure
  ELSE ExitFatal

\* control falls through to the next statement
Goto(p) ==
  /\ pc' = p
  /\ UNCHANGED <<raised, failedStep, reported, exitCode>>

\* an exception leaves the current step body
Raise(exc) ==
  /\ pc' = "exited"
  /\ raised' = exc
  /\ failedStep' = CurrentStep
  /\ exitCode' = ExitCodeFor(exc, InTry)
  /\ UNCHANGED reported

\* error(message) followed by exit(code) in a step body
Exit(code, message) ==
  /\ pc' = "exited"
  /\ failedStep' = CurrentStep
  /\ reported' = reported \cup {message}
  /\ exitCode' = code
  /\ UNCHANGED raised

\* group(name) up to its yield: action.start_group in CI, log.info otherwise
GroupEnter(g) ==
  [open |-> TRUE, starts |-> g.starts + (IF args.ci THEN 1 ELSE 0), ends |-> g.ends]

\* group(name) after its yield, reached only when the body returns
GroupLeave(g) ==
  [open |-> FALSE, starts |-> g.starts, ends |-> g.ends + (IF args.ci THEN 1 ELSE 0)]

\* ------------------------------------------------------------------------
\* the gates of main()
ShouldRunSetup(a, tree) ==
  ~a.ci \/ (a.step = SETUP_ENVIRONMENT /\ (~tree.buildGn \/ a.force))

\* a gate that lets every invocation through
ShouldRunPgoAlways(a) == TRUE

ShouldRunPgo(a) ==
  ~a.ci \/ a.step = DOWNLOAD_PGO_PROFILES

\* the gate without its local-mode disjunct
ShouldRunArgsCiOnly(a, tree) ==
  a.step = CREATE_ARGS_GN /\ (~tree.outDefault \/ a.force)

ShouldRunArgs(a, tree) ==
  ~a.ci \/ (a.step = CREATE_ARGS_GN /\ (~tree.outDefault \/ a.force))

\* the gate without its marker test
ShouldRunBootstrapNoMarker(a, tree) ==
  ~a.ci \/ a.step = BOOTSTRAP_GN

ShouldRunBootstrap(a, tree) ==
  ~a.ci \/ (a.step = BOOTSTRAP_GN /\ (~tree.gnExe \/ a.force))

\* ------------------------------------------------------------------------
\* SetupEnvironment
GateSetup ==
  /\ pc = "gate_setup"
  /\ IF ShouldRunSetup(args, fs)
       THEN /\ Goto("setup_dirs")
            /\ started' = Append(started, SETUP_ENVIRONMENT)
       ELSE /\ Goto("gate_pgo")
            /\ UNCHANGED started
  /\ UNCHANGED <<args, completed, grp, lastCall, tree0, toolchain, fails, fs, cwd, attempt, calls, sleeps, slept, retryResult, site, ops>>

\* mkdir of the source tree and the download cache, then DownloadInfo(...)
SetupDirs ==
  /\ pc = "setup_dirs"
  /\ fs' = [fs EXCEPT !.srcTree = TRUE]
  /\ ops' = ops \cup {"mkdir"}
  /\ \E ok \in BOOLEAN :
       IF ok THEN Goto("retry_call") /\ attempt' = 1
             ELSE Raise("ValueError") /\ UNCHANGED attempt
  /\ grp' = IF pc' = "retry_call" THEN GroupEnter(grp) ELSE grp
  /\ UNCHANGED <<args, completed, lastCall, tree0, toolchain, fails, cwd, calls, sleeps, slept, retryResult, site, started>>

\* a loop that makes one pass too many
RetryLoopOneMore(a) == a <= MaxAttempts

\* for attempt in range(1, 6): is there another pass after this one
RetryLoopContinues(a) == a < MaxAttempts

\* an except clause that catches whatever the callback raises
RetryableAny(r) == r # "ok"

\* except err: the callback is retried on subprocess.CalledProcessError only
Retryable(r) == r = "CalledProcessError"

\* retry_on_fail: one pass through the try block
RetryCall ==
  /\ pc = "retry_call"
  /\ calls' = calls + 1
  /\ ops' = ops \cup {"download"}
  /\ \E r \in {"ok", "CalledProcessError", "URLError"} :
       /\ lastCall' = r
       /\ CASE r = "ok" -> Goto("check") /\ retryResult' = "True" /\ UNCHANGED fails
            [] Retryable(r) ->
                 Goto("retry_sleep") /\ fails' = fails + 1 /\ UNCHANGED retryResult
            [] OTHER -> Raise(r) /\ retryResult' = "raised" /\ UNCHANGED fails
  /\ UNCHANGED <<args, completed, grp, tree0, toolchain, fs, cwd, attempt, sleeps, slept, site, started>>

\* the except clause without its time.sleep
RetrySleepNoBackoff ==
  /\ pc = "retry_sleep"
  /\ IF RetryLoopContinues(attempt)
       THEN /\ attempt' = attempt + 1
            /\ Goto("retry_call")
            /\ UNCHANGED retryResult
       ELSE /\ retryResult' = "False"
            /\ Goto("retry_failed")
            /\ UNCHANGED attempt
  /\ UNCHANGED <<args, completed, grp, lastCall, tree0, toolchain, fails, fs, cwd, calls, sleeps, slept, site,
                 started, ops>>

\* retry_on_fail: the except clause, and the end of the loop
RetrySleep ==
  /\ pc = "retry_sleep"
  /\ sleeps' = sleeps + 1
  /\ slept' = slept + Backoff
  /\ IF RetryLoopContinues(attempt)
       THEN /\ attempt' = attempt + 1
            /\ Goto("retry_call")
            /\ UNCHANGED retryResult
       ELSE /\ retryResult' = "False"
            /\ Goto("retry_failed")
            /\ UNCHANGED attempt
  /\ UNCHANGED <<args, completed, grp, lastCall, tree0, toolchain, fails, fs, cwd, calls, site, started, ops>>

\* if not retry_on_fail(...): error(...); exit(1)
DownloadFailed ==
  /\ pc = "retry_failed"
  /\ Exit(ExitFatal, "All download retry attempts exceeded, exiting")
  /\ UNCHANGED <<args, completed, grp, lastCall, tree0, toolchain, fails, fs, cwd, attempt, calls, sleeps, slept, retryResult, site, started, ops>>

\* the mismatch handler without its exit(1)
CheckDownloadsNoExit ==
  /\ pc = "check"
  /\ ops' = ops \cup {"check"}
  /\ \E r \in {"ok", "HashMismatchError", "OSError"} :
       CASE r = "ok" -> Goto("unpack") 
         [] r = "HashMismatchError" ->
              /\ pc' = "unpack"
              /\ reported' = reported \cup {"File checksum does not match"}
              /\ UNCHANGED <<raised, failedStep, exitCode>>
         [] OTHER -> Raise(r)
  /\ grp' = IF pc' = "unpack" THEN GroupLeave(grp) ELSE grp
  /\ UNCHANGED <<args, completed, lastCall, tree0, toolchain, fails, fs, cwd, attempt, calls, sleeps, slept,
                 retryResult, site, started>>

\* downloads.check_downloads
CheckDownloads ==
  /\ pc = "check"
  /\ ops' = ops \cup {"check"}
  /\ \E r \in {"ok", "HashMismatchError", "OSError"} :
       CASE r = "ok" -> Goto("unpack")
         [] r = "HashMismatchError" -> Exit(ExitFatal, "File checksum does not match")
         [] OTHER -> Raise(r)
  /\ grp' = IF pc' = "unpack" THEN GroupLeave(grp) ELSE grp
  /\ UNCHANGED <<args, completed, lastCall, tree0, toolchain, fails, fs, cwd, attempt, calls, sleeps, slept, retryResult, site, started>>

\* downloads.unpack_downloads: a successful extraction leaves BUILD.gn
UnpackDownloads ==
  /\ pc = "unpack"
  /\ ops' = ops \cup {"unpack"}
  /\ \E ok \in BOOLEAN :
       IF ok THEN Goto("prune") /\ fs' = [fs EXCEPT !.buildGn = TRUE]
             ELSE Raise("ExtractionError") /\ UNCHANGED fs
  /\ grp' = IF pc' = "prune" THEN GroupLeave(GroupEnter(grp)) ELSE GroupEnter(grp)
  /\ UNCHANGED <<args, completed, lastCall, tree0, toolchain, fails, cwd, attempt, calls, sleeps, slept, retryResult, site, started>>

\* prune_binaries.prune_files
PruneBinaries ==
  /\ pc = "prune"
  /\ ops' = ops \cup {"prune"}
  /\ \E r \in {"ok", "unremovable", "OSError"} :
       CASE r = "ok" -> Goto("patch")
         [] r = "unremovable" ->
              /\ pc' = "exited"
              /\ failedStep' = CurrentStep
              /\ exitCode' = ExitFatal
              /\ UNCHANGED <<raised, reported>>
         [] OTHER -> Raise(r)
  /\ grp' = IF pc' = "patch" THEN GroupLeave(GroupEnter(grp)) ELSE GroupEnter(grp)
  /\ UNCHANGED <<args, completed, lastCall, tree0, toolchain, fails, fs, cwd, attempt, calls, sleeps, slept, retryResult, site, started>>

\* patches.apply_patches, the ungoogled-chromium series
ApplyPatches ==
  /\ pc = "patch"
  /\ ops' = ops \cup {"patch"}
  /\ \E ok \in BOOLEAN :
       IF ok THEN Goto("patch_windows") ELSE Raise("CalledProcessError")
  /\ grp' = GroupEnter(grp)
  /\ UNCHANGED <<args, completed, lastCall, tree0, toolchain, fails, fs, cwd, attempt, calls, sleeps, slept, retryResult, site, started>>

\* patches.apply_patches, the Windows series
ApplyWindowsPatches ==
  /\ pc = "patch_windows"
  /\ ops' = ops \cup {"patch_windows"}
  /\ \E ok \in BOOLEAN :
       IF ok THEN Goto(IF args.skip_domsub THEN "gate_pgo" ELSE "domsub")
             ELSE Raise("CalledProcessError")
  /\ grp' = IF pc' = "exited" THEN grp ELSE GroupLeave(grp)
  /\ completed' = IF pc' = "gate_pgo" THEN completed \cup {SETUP_ENVIRONMENT} ELSE completed
  /\ UNCHANGED <<args, lastCall, tree0, toolchain, fails, fs, cwd, attempt, calls, sleeps, slept, retryResult, site, started>>

\* domain_substitution.apply_substitution
SubstituteDomains ==
  /\ pc = "domsub"
  /\ ops' = ops \cup {"domsub"}
  /\ \E ok \in BOOLEAN :
       IF ok THEN Goto("gate_pgo") ELSE Raise("OSError")
  /\ grp' = IF pc' = "gate_pgo" THEN GroupLeave(GroupEnter(grp)) ELSE GroupEnter(grp)
  /\ completed' = IF pc' = "gate_pgo" THEN completed \cup {SETUP_ENVIRONMENT} ELSE completed
  /\ UNCHANGED <<args, lastCall, tree0, toolchain, fails, fs, cwd, attempt, calls, sleeps, slept, retryResult, site, started>>

\* ------------------------------------------------------------------------
\* DownloadPgoProfiles
GatePgo ==
  /\ pc = "gate_pgo"
  /\ IF ShouldRunPgo(args)
       THEN /\ Goto("pgo_read")
            /\ started' = Append(started, DOWNLOAD_PGO_PROFILES)
       ELSE /\ Goto("gate_args")
            /\ UNCHANGED started
  /\ grp' = IF pc' = "pgo_read" THEN GroupEnter(grp) ELSE grp
  /\ UNCHANGED <<args, completed, lastCall, tree0, toolchain, fails, fs, cwd, attempt, calls, sleeps, slept, retryResult, site, ops>>

\* state_file.read_text(): the state file is part of the unpacked source
PgoReadState ==
  /\ pc = "pgo_read"
  /\ ops' = ops \cup {"pgo_read"}
  /\ IF fs.buildGn THEN Goto("pgo_fetch") ELSE Raise("FileNotFoundError")
  /\ UNCHANGED <<args, completed, grp, lastCall, tree0, toolchain, fails, fs, cwd, attempt, calls, sleeps, slept, retryResult, site, started>>

\* what the profile server may answer: the body is written whatever the status
Responses == {"profile", "error page"}

\* a check that never finds the file
NeedsDownloadAlways(tree) == TRUE

\* not profile_path.is_file()
NeedsDownload(tree) == tree.pgoProfile = "absent"

\* the profile is downloaded unless the file is there already
PgoFetch ==
  /\ pc = "pgo_fetch"
  /\ IF NeedsDownload(fs)
       THEN /\ ops' = ops \cup {"pgo_download"}
            /\ \E r \in Responses \cup {"ConnectionError"} :
                 IF r \in Responses
                   THEN Goto("gate_args") /\ fs' = [fs EXCEPT !.pgoProfile = r]
                   ELSE Raise("ConnectionError") /\ UNCHANGED fs
       ELSE /\ ops' = ops \cup {"pgo_touch"}
            /\ Goto("gate_args")
            /\ UNCHANGED fs
  /\ grp' = IF pc' = "gate_args" THEN GroupLeave(grp) ELSE grp
  /\ UNCHANGED <<args, completed, lastCall, tree0, toolchain, fails, cwd, attempt, calls, sleeps, slept, retryResult, site, started>>

\* ------------------------------------------------------------------------
\* CreateArgsGn
GateArgs ==
  /\ pc = "gate_args"
  /\ IF ShouldRunArgs(args, fs)
       THEN /\ Goto("args_mkdir")
            /\ started' = Append(started, CREATE_ARGS_GN)
       ELSE /\ Goto("chdir")
            /\ UNCHANGED started
  /\ grp' = IF pc' = "args_mkdir" THEN GroupEnter(grp) ELSE grp
  /\ UNCHANGED <<args, completed, lastCall, tree0, toolchain, fails, fs, cwd, attempt, calls, sleeps, slept, retryResult, site, ops>>

\* Path.mkdir(parents=True) on out/Default: FileExistsError when it is there
MkdirOutDefault(tree) ==
  IF tree.outDefault THEN [ok |-> FALSE, tree |-> tree]
  ELSE [ok |-> TRUE, tree |-> [tree EXCEPT !.srcTree = TRUE, !.outDefault = TRUE]]

ArgsMkdir ==
  /\ pc = "args_mkdir"
  /\ ops' = ops \cup {"args_mkdir"}
  /\ fs' = MkdirOutDefault(fs).tree
  /\ IF MkdirOutDefault(fs).ok THEN Goto("args_write") ELSE Raise("FileExistsError")
  /\ UNCHANGED <<args, completed, grp, lastCall, tree0, toolchain, fails, cwd, attempt, calls, sleeps, slept, retryResult, site, started>>

\* read both flag files and write args.gn
ArgsWrite ==
  /\ pc = "args_write"
  /\ \E ok \in BOOLEAN :
       IF ok THEN /\ Goto("chdir")
                  /\ ops' = ops \cup {"write_args"}
                  /\ fs' = [fs EXCEPT !.argsGn = ArgsGnContent(args.x86)]
             ELSE /\ Raise("FileNotFoundError")
                  /\ UNCHANGED <<ops, fs>>
  /\ grp' = IF pc' = "chdir" THEN GroupLeave(grp) ELSE grp
  /\ completed' = IF pc' = "chdir" THEN completed \cup {CREATE_ARGS_GN} ELSE completed
  /\ UNCHANGED <<args, lastCall, tree0, toolchain, fails, cwd, attempt, calls, sleeps, slept, retryResult, site, started>>

\* ------------------------------------------------------------------------
\* os.chdir(source_tree)
Chdir ==
  /\ pc = "chdir"
  /\ IF fs.srcTree THEN Goto("gate_bootstrap") /\ cwd' = "src"
                   ELSE Raise("FileNotFoundError") /\ UNCHANGED cwd
  /\ UNCHANGED <<args, completed, grp, lastCall, tree0, toolchain, fails, fs, attempt, calls, sleeps, slept, retryResult, site, started, ops>>

\* ------------------------------------------------------------------------
\* BootstrapGn
GateBootstrap ==
  /\ pc = "gate_bootstrap"
  /\ IF ShouldRunBootstrap(args, fs)
       THEN /\ Goto("vcvars")
            /\ site' = "bootstrap"
            /\ started' = Append(started, BOOTSTRAP_GN)
       ELSE /\ Goto("gate_build")
            /\ UNCHANGED <<site, started>>
  /\ grp' = IF pc' = "vcvars" THEN GroupEnter(grp) ELSE grp
  /\ UNCHANGED <<args, completed, lastCall, tree0, toolchain, fails, fs, cwd, attempt, calls, sleeps, slept, retryResult, ops>>

\* _get_vcvars_path: what the call raises, "ok" when it returns the path
VcvarsError(vswhereOk, batExists) ==
  IF ~vswhereOk THEN "CalledProcessError"
  ELSE IF ~batExists THEN "RuntimeError"
  ELSE "ok"

\* _run_build_process: building the command script
RunBuildVcvars ==
  /\ pc = "vcvars"
  /\ \E vswhereOk \in BOOLEAN, batExists \in BOOLEAN :
       /\ toolchain' = VcvarsError(vswhereOk, batExists)
       /\ IF VcvarsError(vswhereOk, batExists) = "ok"
            THEN Goto("proc")
            ELSE Raise(VcvarsError(vswhereOk, batExists))
  /\ UNCHANGED <<args, completed, grp, lastCall, tree0, fails, fs, cwd, attempt, calls, sleeps, slept, retryResult, site, started, ops>>

\* what follows a successful _run_build_process at each call site
AfterProc(s) ==
  CASE s = "bootstrap" -> "vcvars"
    [] s = "gen" -> "gate_build"
    [] OTHER -> "done"

\* _run_build_process: subprocess.run(('cmd.exe', '/k'), check=True)
RunBuildProc ==
  /\ pc = "proc"
  /\ ops' = ops \cup {site}
  /\ \E rc \in {0, 1} :
       IF rc = 0
         THEN /\ Goto(AfterProc(site))
              /\ site' = IF site = "bootstrap" THEN "gen" ELSE site
              /\ fs' = IF site = "bootstrap" THEN [fs EXCEPT !.gnExe = TRUE] ELSE fs
         ELSE /\ Raise("CalledProcessError")
              /\ UNCHANGED <<site, fs>>
  /\ grp' = IF pc' = "exited" THEN grp
              ELSE IF site = "bootstrap" THEN GroupEnter(GroupLeave(grp))
              ELSE IF site = "gen" \/ args.ci THEN GroupLeave(grp)
              ELSE grp
  /\ completed' = IF pc' = "gate_build" THEN completed \cup {BOOTSTRAP_GN} ELSE completed
  /\ UNCHANGED <<args, lastCall, tree0, toolchain, fails, cwd, attempt, calls, sleeps, slept, retryResult, started>>

\* ------------------------------------------------------------------------
\* Build and Package
GateBuild ==
  /\ pc = "gate_build"
  /\ IF ~args.ci \/ args.step = BUILD
       THEN /\ Goto("vcvars")
            /\ site' = "ninja"
            /\ started' = Append(started, BUILD)
       ELSE IF args.step = PACKAGE
         THEN /\ Goto("package_chdir")
              /\ started' = Append(started, PACKAGE)
              /\ UNCHANGED site
         ELSE /\ Goto("done")
              /\ UNCHANGED <<site, started>>
  /\ grp' = IF args.ci /\ pc' \in {"vcvars", "package_chdir"} THEN GroupEnter(grp) ELSE grp
  /\ UNCHANGED <<args, completed, lastCall, tree0, toolchain, fails, fs, cwd, attempt, calls, sleeps, slept, retryResult, ops>>

\* the Package body without its os.chdir
PackageChdirMissing ==
  /\ pc = "package_chdir"
  /\ Goto("package_run")
  /\ UNCHANGED <<args, completed, grp, lastCall, tree0, toolchain, fails, fs, cwd, attempt, calls, sleeps,
                 slept, retryResult, site, started, ops>>

\* os.chdir(_ROOT_DIR)
PackageChdir ==
  /\ pc = "package_chdir"
  /\ cwd' = "root"
  /\ Goto("package_run")
  /\ UNCHANGED <<args, completed, grp, lastCall, tree0, toolchain, fails, fs, attempt, calls, sleeps, slept, retryResult, site, started, ops>>

\* subprocess.run([sys.executable, 'package.py']): the return code is not looked at
PackageRun ==
  /\ pc = "package_run"
  /\ ops' = ops \cup {"package"}
  /\ \E rc \in {0, 1} :
       /\ pc' = "done"
       /\ failedStep' = IF rc # 0 THEN PACKAGE ELSE failedStep
       /\ UNCHANGED <<raised, reported, exitCode>>
  /\ grp' = GroupLeave(grp)
  /\ UNCHANGED <<args, completed, lastCall, tree0, toolchain, fails, fs, cwd, attempt, calls, sleeps, slept, retryResult, site, started>>

\* main() returns
Finish ==
  /\ pc = "done"
  /\ pc' = "exited"
  /\ exitCode' = 0
  /\ UNCHANGED <<args, completed, grp, lastCall, tree0, toolchain, fails, fs, cwd, attempt, calls, sleeps, slept, retryResult, site, started, ops,
                 failedStep, raised, reported>>

\* the interpreter has gone; the tree is what remains of the invocation
Leave ==
  /\ pc = "exited"
  /\ Fresh(NoArgs)
  /\ pc' = "idle"
  /\ UNCHANGED <<fs, completed>>

\* the script is started on the tree the last invocation left
Invoke ==
  /\ pc = "idle"
  /\ \E a \in Args : Fresh(a) /\ pc' = "gate_setup"
  /\ UNCHANGED <<fs, completed>>

\* ========================================================================
\* build_llvm.py and _run_build_process_timeout

\* seconds; the runner is modelled for every timeout up to this bound
MaxTimeout == 3

\* for _ in range(3): GenerateConsoleCtrlEvent; time.sleep(1)
Interrupts == 3
InterruptGap == 1
\* proc.wait(10)
GraceWait == 10

VARIABLES
  tpc,        \* position of build_llvm.py / _run_build_process_timeout
  timeout,    \* the timeout argument, in seconds
  now,        \* seconds since Popen
  child,      \* "none", "running", "exited" or "killed"
  childRc,    \* return code of the child, -1 while there is none
  ignores,    \* the child does not react to console control events
  hangs,      \* the child never exits of its own accord
  intrSent,   \* console control events sent
  waited,     \* seconds spent in proc.wait(10)
  expired,    \* proc.wait(timeout) raised TimeoutExpired
  killSent,   \* proc.kill() was called
  pending,    \* exception in flight inside the runner, "none" if none
  tToolchain, \* outcome of _get_vcvars_path in the runner
  tExit,      \* exit code of build_llvm.py, -1 while running
  exitedAfter \* console control events sent when the child exited, -1 if it has not

tvars ==
  <<tpc, timeout, now, child, childRc, ignores, hangs, intrSent, waited, expired,
    killSent, pending, tToolchain, tExit, exitedAfter>>

vars == <<mvars, tvars>>

\* build_llvm.py at its call of _run_build_process_timeout, for a timeout and a child
RunnerAt(p, t, ign, hng) ==
  /\ tpc = p
  /\ timeout = t
  /\ now = 0
  /\ child = "none"
  /\ childRc = -1
  /\ ignores = ign
  /\ hangs = hng
  /\ intrSent = 0
  /\ waited = 0
  /\ expired = FALSE
  /\ killSent = FALSE
  /\ pending = "none"
  /\ tToolchain = "none"
  /\ tExit = -1
  /\ exitedAfter = -1

\* cmd_input = [f'call "{_get_vcvars_path()}" >nul']
TimeoutVcvars ==
  /\ tpc = "t_vcvars"
  /\ \E vswhereOk \in BOOLEAN, batExists \in BOOLEAN :
       /\ tToolchain' = VcvarsError(vswhereOk, batExists)
       /\ IF VcvarsError(vswhereOk, batExists) = "ok"
            THEN tpc' = "t_popen" /\ UNCHANGED pending
            ELSE tpc' = "t_returned" /\ pending' = VcvarsError(vswhereOk, batExists)
  /\ UNCHANGED <<timeout, now, child, childRc, ignores, hangs, intrSent, waited, expired,
                 killSent, tExit, exitedAfter>>

\* subprocess.Popen(('cmd.exe', '/k'), ...) and the script written to its stdin
TimeoutPopen ==
  /\ tpc = "t_popen"
  /\ child' = "running"
  /\ tpc' = "t_wait"
  /\ UNCHANGED <<timeout, now, childRc, ignores, hangs, intrSent, waited, expired,
                 killSent, pending, tToolchain, tExit, exitedAfter>>

\* the child may leave by itself, or because of a console control event it heeds
ChildMayExit == ~hangs \/ (~ignores /\ intrSent > 0)

ChildExit ==
  /\ child = "running"
  /\ ChildMayExit
  /\ child' = "exited"
  /\ \E rc \in {0, 1} : childRc' = rc
  /\ exitedAfter' = intrSent
  /\ UNCHANGED <<tpc, timeout, now, ignores, hangs, intrSent, waited, expired,
                 killSent, pending, tToolchain, tExit>>

\* proc.wait(timeout): a second passes
WaitTick ==
  /\ tpc = "t_wait"
  /\ child = "running"
  /\ now < timeout
  /\ now' = now + 1
  /\ UNCHANGED <<tpc, timeout, child, childRc, ignores, hangs, intrSent, waited, expired,
                 killSent, pending, tToolchain, tExit, exitedAfter>>

\* a runner that does not look at the return code
ReturnCodeErrorNever(rc) == "none"

\* if proc.returncode != 0: raise RuntimeError('Build failed!')
ReturnCodeError(rc) == IF rc # 0 THEN "RuntimeError" ELSE "none"

\* proc.wait(timeout) returns
WaitReturn ==
  /\ tpc = "t_wait"
  /\ child = "exited"
  /\ pending' = ReturnCodeError(childRc)
  /\ tpc' = "t_ctx_exit"
  /\ UNCHANGED <<timeout, now, child, childRc, ignores, hangs, intrSent, waited, expired,
                 killSent, tToolchain, tExit, exitedAfter>>

\* except subprocess.TimeoutExpired: log.warn('Sending keyboard interrupt')
WaitExpire ==
  /\ tpc = "t_wait"
  /\ child = "running"
  /\ now = timeout
  /\ expired' = TRUE
  /\ tpc' = "t_intr"
  /\ UNCHANGED <<timeout, now, child, childRc, ignores, hangs, intrSent, waited,
                 killSent, pending, tToolchain, tExit, exitedAfter>>

\* GenerateConsoleCtrlEvent(1, proc.pid)
SendInterrupt ==
  /\ tpc = "t_intr"
  /\ intrSent' = intrSent + 1
  /\ tpc' = "t_sleep"
  /\ UNCHANGED <<timeout, now, child, childRc, ignores, hangs, waited, expired,
                 killSent, pending, tToolchain, tExit, exitedAfter>>

\* a loop that sends one event too many
InterruptLoopOneMore(n) == n <= Interrupts

\* for _ in range(3): is there another pass after this many events
InterruptLoopContinues(n) == n < Interrupts

\* time.sleep(1)
InterruptSleep ==
  /\ tpc = "t_sleep"
  /\ now' = now + InterruptGap
  /\ tpc' = IF InterruptLoopContinues(intrSent) THEN "t_intr" ELSE "t_grace"
  /\ UNCHANGED <<timeout, child, childRc, ignores, hangs, intrSent, waited, expired,
                 killSent, pending, tToolchain, tExit, exitedAfter>>

\* proc.wait(10): a second passes
GraceTick ==
  /\ tpc = "t_grace"
  /\ child = "running"
  /\ waited < GraceWait
  /\ waited' = waited + 1
  /\ now' = now + 1
  /\ UNCHANGED <<tpc, timeout, child, childRc, ignores, hangs, intrSent, expired,
                 killSent, pending, tToolchain, tExit, exitedAfter>>

\* proc.wait(10) returns: the child has gone
GraceReturn ==
  /\ tpc = "t_grace"
  /\ child # "running"
  /\ tpc' = "t_raise"
  /\ UNCHANGED <<timeout, now, child, childRc, ignores, hangs, intrSent, waited, expired,
                 killSent, pending, tToolchain, tExit, exitedAfter>>

\* a wait that gives up while there is time left
GraceExpireEarly ==
  /\ tpc = "t_grace"
  /\ child = "running"
  /\ tpc' = "t_kill"
  /\ UNCHANGED <<timeout, now, child, childRc, ignores, hangs, intrSent, waited, expired,
                 killSent, pending, tToolchain, tExit, exitedAfter>>

\* proc.wait(10) raises TimeoutExpired, caught by the bare except
GraceExpire ==
  /\ tpc = "t_grace"
  /\ child = "running"
  /\ waited = GraceWait
  /\ tpc' = "t_kill"
  /\ UNCHANGED <<timeout, now, child, childRc, ignores, hangs, intrSent, waited, expired,
                 killSent, pending, tToolchain, tExit, exitedAfter>>

\* proc.kill()
Kill ==
  /\ tpc = "t_kill"
  /\ killSent' = TRUE
  /\ child' = IF child = "running" THEN "killed" ELSE child
  /\ childRc' = IF child = "running" THEN 1 ELSE childRc
  /\ tpc' = "t_raise"
  /\ UNCHANGED <<timeout, now, ignores, hangs, intrSent, waited, expired,
                 pending, tToolchain, tExit, exitedAfter>>

\* raise KeyboardInterrupt
RaiseCancelled ==
  /\ tpc = "t_raise"
  /\ pending' = "KeyboardInterrupt"
  /\ tpc' = "t_ctx_exit"
  /\ UNCHANGED <<timeout, now, child, childRc, ignores, hangs, intrSent, waited, expired,
                 killSent, tToolchain, tExit, exitedAfter>>

\* leaving the with block: Popen.__exit__ waits for the child
PopenExit ==
  /\ tpc = "t_ctx_exit"
  /\ child # "running"
  /\ tpc' = "t_returned"
  /\ UNCHANGED <<timeout, now, child, childRc, ignores, hangs, intrSent, waited, expired,
                 killSent, pending, tToolchain, tExit, exitedAfter>>

\* the except clauses with their exit codes exchanged
LlvmExitCodeSwapped(exc) ==
  CASE exc = "KeyboardInterrupt" -> ExitToolFailure
    [] exc = "RuntimeError" -> ExitCancelled
    [] exc = "none" -> 0
    [] OTHER -> ExitFatal

\* build_llvm.py: the except clauses around the call
LlvmExitCode(exc) ==
  CASE exc = "KeyboardInterrupt" -> ExitCancelled
    [] exc = "RuntimeError" -> ExitToolFailure
    [] exc = "none" -> 0
    [] OTHER -> ExitFatal

LlvmExit ==
  /\ tpc = "t_returned"
  /\ tExit' = LlvmExitCode(pending)
  /\ tpc' = "t_done"
  /\ UNCHANGED <<timeout, now, child, childRc, ignores, hangs, intrSent, waited, expired,
                 killSent, pending, tToolchain, exitedAfter>>

\* ========================================================================
\* build.py, invoked any number of times on one build tree
Init == MainIdle /\ RunnerAt("idle", 1, FALSE, FALSE)

Next ==
  \/ GateSetup /\ UNCHANGED tvars
  \/ SetupDirs /\ UNCHANGED tvars
  \/ RetryCall /\ UNCHANGED tvars
  \/ RetrySleep /\ UNCHANGED tvars
  \/ DownloadFailed /\ UNCHANGED tvars
  \/ CheckDownloads /\ UNCHANGED tvars
  \/ UnpackDownloads /\ UNCHANGED tvars
  \/ PruneBinaries /\ UNCHANGED tvars
  \/ ApplyPatches /\ UNCHANGED tvars
  \/ ApplyWindowsPatches /\ UNCHANGED tvars
  \/ SubstituteDomains /\ UNCHANGED tvars
  \/ GatePgo /\ UNCHANGED tvars
  \/ PgoReadState /\ UNCHANGED tvars
  \/ PgoFetch /\ UNCHANGED tvars
  \/ GateArgs /\ UNCHANGED tvars
  \/ ArgsMkdir /\ UNCHANGED tvars
  \/ ArgsWrite /\ UNCHANGED tvars
  \/ Chdir /\ UNCHANGED tvars
  \/ GateBootstrap /\ UNCHANGED tvars
  \/ RunBuildVcvars /\ UNCHANGED tvars
  \/ RunBuildProc /\ UNCHANGED tvars
  \/ GateBuild /\ UNCHANGED tvars
  \/ PackageChdir /\ UNCHANGED tvars
  \/ PackageRun /\ UNCHANGED tvars
  \/ Finish /\ UNCHANGED tvars
  \/ Leave /\ UNCHANGED tvars
  \/ Invoke /\ UNCHANGED tvars

Spec == Init /\ [][Next]_vars

\* build_llvm.py, one run
InitLlvm ==
  /\ MainIdle
  /\ \E t \in 1..MaxTimeout, ign \in BOOLEAN, hng \in BOOLEAN : RunnerAt("t_vcvars", t, ign, hng)

Runner ==
  \/ TimeoutVcvars \/ TimeoutPopen \/ WaitTick \/ WaitReturn \/ WaitExpire
  \/ SendInterrupt \/ InterruptSleep \/ GraceTick \/ GraceReturn \/ GraceExpire
  \/ Kill \/ RaiseCancelled \/ PopenExit \/ LlvmExit

NextLlvm ==
  \/ TimeoutVcvars /\ UNCHANGED mvars
  \/ TimeoutPopen /\ UNCHANGED mvars
  \/ WaitTick /\ UNCHANGED mvars
  \/ WaitReturn /\ UNCHANGED mvars
  \/ WaitExpire /\ UNCHANGED mvars
  \/ SendInterrupt /\ UNCHANGED mvars
  \/ InterruptSleep /\ UNCHANGED mvars
  \/ GraceTick /\ UNCHANGED mvars
  \/ GraceReturn /\ UNCHANGED mvars
  \/ GraceExpire /\ UNCHANGED mvars
  \/ Kill /\ UNCHANGED mvars
  \/ RaiseCancelled /\ UNCHANGED mvars
  \/ PopenExit /\ UNCHANGED mvars
  \/ LlvmExit /\ UNCHANGED mvars
  \/ ChildExit /\ UNCHANGED mvars

SpecLlvm == InitLlvm /\ [][NextLlvm]_vars

\* the interpreter keeps running and its sleeps and waits end; the child owes nothing
FairLlvm == SpecLlvm /\ WF_vars(Runner /\ UNCHANGED mvars)

\* ========================================================================
\* Properties

Range(q) == {q[i] : i \in 1..Len(q)}

IsPrefix(q, r) == Len(q) <= Len(r) /\ q = SubSeq(r, 1, Len(q))

\* the steps a local run goes through
LocalOrder == SubSeq(StepOrder, 1, 5)

\* the completion marker of a step in a tree; FALSE for a step that has none
MarkerExists(s, tree) ==
  CASE s = SETUP_ENVIRONMENT -> tree.buildGn
    [] s = CREATE_ARGS_GN -> tree.outDefault
    [] s = BOOTSTRAP_GN -> tree.gnExe
    [] OTHER -> FALSE

\* the side-effecting operations of the body of a step that has a marker
BodyOps(s) ==
  CASE s = SETUP_ENVIRONMENT ->
         {"mkdir", "download", "check", "unpack", "prune", "patch", "patch_windows", "domsub"}
    [] s = CREATE_ARGS_GN -> {"args_mkdir", "write_args"}
    [] s = BOOTSTRAP_GN -> {"bootstrap", "gen"}
    [] OTHER -> {}

C2_Original ==
  failedStep # "none" =>
    /\ CurrentStep = failedStep
    /\ (pc = "exited" => exitCode # 0)

\* C3: in CI without force, a selected step whose completion marker was there
\* when the run began performs none of its side-effecting operations.
C3_MarkerSkips ==
  (args.ci /\ ~args.force /\ MarkerExists(args.step, tree0)) =>
    /\ ops \cap BodyOps(args.step) = {}
    /\ args.step \notin Range(started)

C3_Witness ==
  /\ args.ci /\ ~args.force /\ args.step = BOOTSTRAP_GN /\ tree0.gnExe
  /\ pc = "exited" /\ exitCode = 0

\* C4 as stated: in CI with force, a selected step whose completion marker is
\* there still runs its body: the directories are made for SetupEnvironment,
\* args.gn is written for CreateArgsGn when the flag files can be read, the
\* bootstrap process is launched for BootstrapGn when the toolchain is found.
C4_Original ==
  (args.ci /\ args.force /\ MarkerExists(args.step, tree0) /\ pc = "exited") =>
    /\ args.step \in Range(started)
    /\ (args.step = SETUP_ENVIRONMENT => "mkdir" \in ops)
    /\ (args.step = CREATE_ARGS_GN /\ raised # "FileNotFoundError" => "write_args" \in ops)
    /\ (args.step = BOOTSTRAP_GN /\ toolchain = "ok" => "bootstrap" \in ops)

\* C5: with a child that ignores the interrupts and never leaves, the runner is
\* never more than 10s + 3 x 1s past the deadline, cancellation is raised only
\* after three interrupts and the kill, and cancellation does reach the caller.
C5_Escalates ==
  /\ [](expired /\ ignores /\ hangs => now - timeout <= 10 + 3 * 1)
  /\ [](ignores /\ hangs /\ pending = "KeyboardInterrupt" =>
          killSent /\ child = "killed" /\ intrSent = 3)
  /\ ((expired /\ ignores /\ hangs) ~>
        (tpc \in {"t_returned", "t_done"} /\ pending = "KeyboardInterrupt"))

C5_Witness ==
  /\ expired /\ ignores /\ hangs /\ child = "killed"
  /\ tpc = "t_returned" /\ pending = "KeyboardInterrupt" /\ now = timeout + 13

\* C6 as stated: in CI, a ninja process that ran and exited non-zero makes the
\* run exit with the tool-failure code.
C6_Original ==
  (args.ci /\ args.step = BUILD /\ pc = "exited" /\ "ninja" \in ops /\ failedStep = BUILD) =>
    exitCode = ExitToolFailure

\* C7: a run of the timeout-bounded build whose child outlived the deadline and
\* ignores interrupts exits with the cancelled code, not the tool-failure code.
C7_CancelledCode ==
  (tpc = "t_done" /\ expired /\ ignores) =>
    tExit = 124 /\ tExit # 123

C7_Witness ==
  tpc = "t_done" /\ expired /\ ignores /\ hangs /\ killSent /\ tExit = 124

\* C8 as stated: when _get_vcvars_path fails the run exits with code 1 and the
\* build process of that call is not launched.
C8_Original ==
  (pc = "exited" /\ toolchain \in {"CalledProcessError", "RuntimeError"}) =>
    /\ exitCode = 1
    /\ site \notin ops

\* C9: when retry_on_fail returns True after n failures, n < 5, the callback
\* was invoked n + 1 times and each failure was followed by one 5 s sleep.
C9_RetrySucceeds ==
  retryResult = "True" =>
    /\ fails < 5
    /\ calls = fails + 1
    /\ sleeps = fails
    /\ slept = 5 * fails

C9_Witness ==
  retryResult = "True" /\ fails = 3 /\ calls = 4 /\ sleeps = 3

\* C10: the callback is never invoked more than 5 times; after 5 failures
\* retry_on_fail returns False and the run reports the error and exits with
\* code 1 with nothing after the download having been started.
C10_RetryBounded ==
  /\ calls <= 5
  /\ (retryResult = "False" =>
        /\ calls = 5 /\ fails = 5
        /\ pc \in {"retry_failed", "exited"}
        /\ ops \subseteq {"mkdir", "download"}
        /\ started = <<SETUP_ENVIRONMENT>>)
  /\ (retryResult = "False" /\ pc = "exited" =>
        /\ exitCode = 1
        /\ "All download retry attempts exceeded, exiting" \in reported)

C10_Witness ==
  retryResult = "False" /\ pc = "exited" /\ exitCode = 1

\* C11: when the callback raises an error that is not of the retryable kind,
\* the error leaves retry_on_fail at once: that invocation is followed by no
\* warning, no sleep and no further invocation, and the error ends the run.
C11_NoRetryOnOtherError ==
  lastCall = "URLError" =>
    /\ pc = "exited"
    /\ raised = "URLError"
    /\ retryResult = "raised"
    /\ calls = fails + 1
    /\ sleeps = fails
    /\ slept = 5 * fails

C11_Witness ==
  lastCall = "URLError" /\ pc = "exited" /\ calls = 3 /\ fails = 2 /\ sleeps = 2

\* C12 as stated: a CI run of CreateArgsGn for 32 bit that finds no args.gn
\* (out/Default there or not) and can read the flag files leaves an args.gn
\* holding the base flags, a newline and the Windows flags with x64 turned
\* into x86, and exits with code 0.
C12_Original ==
  (/\ args.ci /\ args.step = CREATE_ARGS_GN /\ args.x86
   /\ tree0.argsGn = <<>>
   /\ pc = "exited" /\ raised # "FileNotFoundError") =>
    /\ fs.argsGn = <<"is_official_build", "\n", "target_cpu=", "x86", "v8_cpu=", "x86">>
    /\ exitCode = 0

\* C13: a hash mismatch is reported and ends the run with exit code 1 before
\* unpacking, pruning, patching or domain substitution is started.
C13_MismatchStops ==
  "File checksum does not match" \in reported =>
    /\ pc = "exited"
    /\ exitCode = 1
    /\ ops \cap {"unpack", "prune", "patch", "patch_windows", "domsub"} = {}
    /\ started = <<SETUP_ENVIRONMENT>>
    /\ fs.buildGn = tree0.buildGn

C13_Witness ==
  /\ "File checksum does not match" \in reported
  /\ "check" \in ops /\ pc = "exited" /\ exitCode = 1

\* the positions of main() at which collaborators and processes of a step run
GroupedPcs ==
  {"retry_call", "retry_sleep", "check", "pgo_read", "pgo_fetch", "args_mkdir",
   "args_write", "vcvars", "proc", "package_chdir", "package_run"}

\* C14 as stated: in CI every start-of-group notification has had its
\* end-of-group notification when the run is over, however the body ended, and
\* the collaborators and processes of every step run inside a group.
C14_Original ==
  /\ (args.ci /\ pc = "exited" => grp.starts = grp.ends)
  /\ (pc \in GroupedPcs => grp.open)

\* the positions of main() inside the bodies of the first three steps
EarlyPcs ==
  {"setup_dirs", "retry_call", "retry_sleep", "retry_failed", "check", "unpack", "prune",
   "patch", "patch_windows", "domsub", "pgo_read", "pgo_fetch", "args_mkdir", "args_write"}

StepOps(s) ==
  CASE s = DOWNLOAD_PGO_PROFILES -> {"pgo_read", "pgo_download", "pgo_touch"}
    [] s = BUILD -> {"ninja"}
    [] s = PACKAGE -> {"package"}
    [] OTHER -> BodyOps(s)

\* what a step leaves alone in the build tree
Untouched(s, t) ==
  CASE s = SETUP_ENVIRONMENT -> <<t.pgoProfile, t.outDefault, t.argsGn, t.gnExe>>
    [] s = DOWNLOAD_PGO_PROFILES -> <<t.srcTree, t.buildGn, t.outDefault, t.argsGn, t.gnExe>>
    [] s = CREATE_ARGS_GN -> <<t.buildGn, t.pgoProfile, t.gnExe>>
    [] s = BOOTSTRAP_GN -> <<t.srcTree, t.buildGn, t.pgoProfile, t.outDefault, t.argsGn>>
    [] OTHER -> <<t>>

\* C16: a CI invocation starts no step body but that of the selected step,
\* performs no operation of another step and leaves the other steps' files as
\* it found them.
C16_OnlySelectedStep ==
  args.ci =>
    /\ Range(started) \subseteq {args.step}
    /\ ops \subseteq StepOps(args.step)
    /\ Untouched(args.step, fs) = Untouched(args.step, tree0)

C16_Witness ==
  /\ args.ci /\ args.step = BUILD /\ tree0.buildGn /\ tree0.pgoProfile = "absent" /\ ~tree0.outDefault
  /\ "ninja" \in ops /\ pc = "exited" /\ exitCode = 0

\* C17: the DownloadPgoProfiles body is entered exactly when the invocation
\* is local or selects that step, whatever the force flag and the tree; in the
\* body a download request is made exactly when the profile file is absent,
\* and when the file is there it is only touched and the tree is unchanged.
C17_PgoGateAndFetch ==
  /\ [][pc = "gate_pgo" =>
          (pc' = "pgo_read" <=> (~args.ci \/ args.step = DOWNLOAD_PGO_PROFILES))]_vars
  /\ [][pc = "pgo_fetch" =>
          /\ "pgo_download" \in ops' <=> fs.pgoProfile = "absent"
          /\ fs.pgoProfile # "absent" => "pgo_touch" \in ops' /\ fs' = fs]_vars

C17_Witness ==
  /\ args.ci /\ args.step = DOWNLOAD_PGO_PROFILES /\ ~args.force
  /\ pc = "gate_args" /\ "pgo_touch" \in ops /\ "pgo_download" \notin ops
  /\ fs.pgoProfile = "error page" /\ tree0.pgoProfile = "error page"

\* C18: once the toolchain was found, the runner returns normally when the
\* child exited with 0 before the deadline, raises RuntimeError when it exited
\* with another code before the deadline, and raises KeyboardInterrupt when
\* the deadline expired first, whatever the child did afterwards; no console
\* control event and no kill is sent unless the deadline expired.
C18_OutcomeByFirstEvent ==
  /\ (intrSent > 0 \/ killSent) => expired
  /\ expired => now >= timeout
  /\ (tpc \in {"t_returned", "t_done"} /\ tToolchain = "ok") =>
       /\ expired => pending = "KeyboardInterrupt"
       /\ (~expired /\ childRc = 0) => pending = "none" /\ exitedAfter = 0
       /\ (~expired /\ childRc # 0) => pending = "RuntimeError" /\ exitedAfter = 0

C18_Witness ==
  /\ tpc = "t_returned" /\ expired /\ child = "exited" /\ childRc = 0 /\ exitedAfter = 1
  /\ pending = "KeyboardInterrupt" /\ ~killSent

\* C19: after the deadline the runner sends three console control events one
\* second apart, then waits up to ten seconds, then kills; the kill is decided
\* only when the ten seconds are over with the child still running, and no
\* event is sent once the wait has begun.
C19_CancellationOrder ==
  /\ [](intrSent <= Interrupts)
  /\ [](tpc = "t_intr" => expired /\ now = timeout + InterruptGap * intrSent)
  /\ [](tpc \in {"t_grace", "t_kill"} =>
          /\ intrSent = Interrupts /\ waited <= GraceWait
          /\ now = timeout + InterruptGap * Interrupts + waited)
  /\ [](killSent => expired /\ intrSent = Interrupts /\ waited = GraceWait)
  /\ [][(tpc' = "t_kill" /\ tpc # "t_kill") => child = "running" /\ waited = GraceWait]_vars
  /\ [][(killSent' /\ ~killSent) => tpc = "t_kill"]_vars
  /\ [][intrSent' # intrSent => tpc = "t_intr" /\ waited = 0 /\ ~killSent]_vars

C19_Witness ==
  /\ tpc = "t_returned" /\ killSent /\ child = "killed" /\ intrSent = Interrupts
  /\ waited = GraceWait /\ now = timeout + 13 /\ pending = "KeyboardInterrupt"

\* C20: between invocations, each completion marker that exists on the tree
\* belongs to a step whose whole body has run to its end at least once.
C20_Original ==
  pc = "idle" =>
    /\ fs.buildGn => SETUP_ENVIRONMENT \in completed
    /\ fs.outDefault => CREATE_ARGS_GN \in completed
    /\ fs.gnExe => BOOTSTRAP_GN \in completed

\* a tree as a fully successful local run leaves it
FullTree(t) ==
  /\ t.srcTree /\ t.buildGn /\ t.pgoProfile # "absent"
  /\ t.outDefault /\ t.argsGn # <<>> /\ t.gnExe

\* C21 as stated: a local run on a tree left by a fully successful run, with
\* every step completed there before, gets through CreateArgsGn again: making
\* out/Default does not fail, and unless a flag file cannot be read the
\* args.gn it leaves is the one a single execution writes.
C21_Original ==
  (/\ ~args.ci /\ FullTree(tree0) /\ pc = "exited"
   /\ {SETUP_ENVIRONMENT, CREATE_ARGS_GN, BOOTSTRAP_GN} \subseteq completed
   /\ CREATE_ARGS_GN \in Range(started)) =>
    /\ raised # "FileExistsError"
    /\ raised = "FileNotFoundError" \/ fs.argsGn = ArgsGnContent(args.x86)

====
